---- MODULE Spec2Model ----
(***************************************************************************)
(* A model of resumata.py: the ResumeOptimizer class (skill validation,    *)
(* keyword extraction, resume transformation) and the main() run.          *)
(*                                                                         *)
(* Python strings are sequences of one-character strings, so that lower(), *)
(* substring tests, slicing and concatenation are computed, not assumed.   *)
(* A Python dict that is iterated (a keyword-count map) is the sequence of *)
(* its (key, value) pairs in insertion order.  A dict that is only looked  *)
(* up by key is a TLA+ function (record) whose domain is its key set.      *)
(***************************************************************************)
EXTENDS Integers, Sequences, FiniteSets, TLC

VARIABLES
    pc,                \* "ready"/"returned" for a method call; main()'s position otherwise
    validated_skills,  \* self.validated_skills
    heap,              \* the dict objects of a resume document, by object id
    pre,               \* the heap as it was when optimize_resume was entered
    call,              \* the last method call: its arguments and its return value
    files,             \* the files main() finds: skills config, resume, job posting, output
    resume_data,       \* main(): the loaded resume (an object id, or a falsy value)
    job_text,          \* main(): the loaded job posting text
    job_keywords,      \* main(): the result of extract_keywords
    optimized_resume,  \* main(): the result of optimize_resume (an object id)
    output,            \* the document written by save_resume, or NoFile
    log                \* main(): the steps completed so far, in order

vars == <<pc, validated_skills, heap, pre, call, files, resume_data, job_text,
          job_keywords, optimized_resume, output, log>>

----------------------------------------------------------------------------
(* Strings *)

UpperCase == <<"A", "B", "C", "D", "E", "F", "G", "H", "I", "J", "K", "L", "M",
               "N", "O", "P", "Q", "R", "S", "T", "U", "V", "W", "X", "Y", "Z">>

LowerCase == <<"a", "b", "c", "d", "e", "f", "g", "h", "i", "j", "k", "l", "m",
               "n", "o", "p", "q", "r", "s", "t", "u", "v", "w", "x", "y", "z">>

Range(s) == {s[i] : i \in 1..Len(s)}

Digits == {"0", "1", "2", "3", "4", "5", "6", "7", "8", "9"}

UpperChars == Range(UpperCase)

\* the lowercase letter of each uppercase letter
LowerOf ==
    [c \in UpperChars |-> LowerCase[CHOOSE i \in 1..Len(UpperCase) : UpperCase[i] = c]]

\* str.lower() on one character
lower_char(c) == IF c \in UpperChars THEN LowerOf[c] ELSE c

\* str.lower()
lower(s) == [i \in 1..Len(s) |-> lower_char(s[i])]

\* needle in hay (substring test of two strings)
Contains(hay, needle) ==
    \E i \in 0..(Len(hay) - Len(needle)) :
        SubSeq(hay, i + 1, i + Len(needle)) = needle

\* item in lst (membership in a list)
InList(item, lst) == \E i \in 1..Len(lst) : lst[i] = item

Reverse(s) == [i \in 1..Len(s) |-> s[Len(s) + 1 - i]]

\* sep.join(parts)
RECURSIVE Join(_, _)
Join(sep, parts) ==
    IF parts = <<>> THEN <<>>
    ELSE IF Len(parts) = 1 THEN parts[1]
    ELSE parts[1] \o sep \o Join(sep, Tail(parts))

\* the strings the model uses
go      == <<"g", "o">>
ai      == <<"a", "i">>
git     == <<"g", "i", "t">>
csharp  == <<"c", "#">>
restapi == <<"r", "e", "s", "t", " ", "a", "p", "i">>
Go      == <<"G", "o">>
GO      == <<"G", "O">>
AI      == <<"A", "I">>

----------------------------------------------------------------------------
(* SkillRegistry: self.validated_skills and validate_keyword *)

\* skill_hierarchy = ['learning', 'familiar', 'proficient', 'expert']
skill_hierarchy == <<"learning", "familiar", "proficient", "expert">>

\* skill_hierarchy.index(skill_level)
hierarchy_index(skill_level) ==
    CHOOSE i \in 1..Len(skill_hierarchy) : skill_hierarchy[i] = skill_level

ConfigKeys == {"expert", "proficient", "familiar", "learning", "never_add"}

\* the dict load_validated_skills returns when there is no usable config file
default_config == [k \in ConfigKeys |-> <<>>]

\* self.validated_skills.get(key, [])
skills_get(reg, key) == IF key \in DOMAIN reg THEN reg[key] ELSE <<>>

\* keyword_lower in [skill.lower() for skill in self.validated_skills.get(key, [])]
listed(reg, key, keyword_lower) ==
    LET skills == skills_get(reg, key)
    IN  \E i \in 1..Len(skills) : lower(skills[i]) = keyword_lower

\* a buggy validate_keyword: the never_add check is missing
validate_keyword_no_never_add(reg, keyword, skill_level) ==
    \E i \in hierarchy_index(skill_level)..Len(skill_hierarchy) :
        listed(reg, skill_hierarchy[i], lower(keyword))

\* a buggy validate_keyword: the required level is ignored, any level validates
validate_keyword_any_level(reg, keyword, skill_level) ==
    IF listed(reg, "never_add", lower(keyword)) THEN FALSE
    ELSE \E i \in 1..Len(skill_hierarchy) :
            listed(reg, skill_hierarchy[i], lower(keyword))

validate_keyword(reg, keyword, skill_level) ==
    LET keyword_lower == lower(keyword)
        min_level_index == hierarchy_index(skill_level)
    IN  IF listed(reg, "never_add", keyword_lower)
        THEN FALSE
        ELSE \E i \in min_level_index..Len(skill_hierarchy) :
                listed(reg, skill_hierarchy[i], keyword_lower)

\* get_skill_level: the first of expert, proficient, familiar, learning that lists it
get_skill_level(reg, keyword) ==
    LET order == <<"expert", "proficient", "familiar", "learning">>
        hits == {i \in 1..Len(order) : listed(reg, order[i], lower(keyword))}
    IN  IF hits = {} THEN "unknown"
        ELSE order[CHOOSE i \in hits : \A j \in hits : i <= j]

\* a buggy filter_safe_keywords: nothing is filtered out
filter_safe_keywords_all(reg, keywords) == keywords

\* filter_safe_keywords: the (keyword, count) pairs that validate at 'familiar',
\* in the order of the input dict; the others are printed
filter_safe_keywords(reg, keywords) ==
    SelectSeq(keywords, LAMBDA p : validate_keyword(reg, p.kw, "familiar"))

----------------------------------------------------------------------------
(* sorted(): Python's stable sort.  The argument is the list decorated with *)
(* its keys: a sequence of records [k |-> key, v |-> item].                *)

\* the stable ascending sort, as an insertion sort: an element goes after every
\* element placed before it whose key is not greater
RECURSIVE SortAsc(_)
SortAsc(s) ==
    IF s = <<>> THEN <<>>
    ELSE LET rest == SortAsc(SubSeq(s, 1, Len(s) - 1))
             x    == s[Len(s)]
             n    == Cardinality({i \in 1..Len(rest) : rest[i].k <= x.k})
         IN  SubSeq(rest, 1, n) \o <<x>> \o SubSeq(rest, n + 1, Len(rest))

\* a buggy sorted(): descending order obtained by reversing the ascending result,
\* which reverses the items of equal key
sorted_unstable(s, reverse) ==
    [i \in 1..Len(s) |-> (IF reverse THEN Reverse(SortAsc(s)) ELSE SortAsc(s))[i].v]

\* sorted(items, key=..., reverse=...): with reverse the list is reversed, sorted
\* ascending and reversed again, which keeps items of equal key in their order
sorted(s, reverse) ==
    LET r == IF reverse THEN Reverse(SortAsc(Reverse(s))) ELSE SortAsc(s)
    IN  [i \in 1..Len(s) |-> r[i].v]

RECURSIVE SumSeq(_)
SumSeq(s) == IF s = <<>> THEN 0 ELSE Head(s) + SumSeq(Tail(s))

\* lst[:n]
Take(lst, n) == SubSeq(lst, 1, IF Len(lst) < n THEN Len(lst) ELSE n)

----------------------------------------------------------------------------
(* ResumeTransformer.  A technology item is a dict with a label and,       *)
(* optionally, details; details is [type |-> "list", val |-> list of       *)
(* strings] or [type |-> "str", val |-> string] (isinstance(details, str)).*)

ScoreWeight == 10
SummaryTop  == 3
RankTop     == 8
NewTop      == 6

\* details = item.get('details', []); a single string becomes [details]
details_of(item) ==
    IF "details" \notin DOMAIN item THEN <<>>
    ELSE IF item.details.type = "str" THEN <<item.details.val>>
    ELSE item.details.val

\* keyword_score(tech_item), the nested function of reorder_technologies
keyword_score(tech_item, matched_keywords) ==
    LET details == details_of(tech_item)
        detail_score(detail) ==
            SumSeq([j \in 1..Len(matched_keywords) |->
                      IF Contains(lower(detail), matched_keywords[j].kw)
                      THEN matched_keywords[j].count * ScoreWeight ELSE 0])
    IN  SumSeq([i \in 1..Len(details) |-> detail_score(details[i])])

reorder_technologies(tech_section, matched_keywords) ==
    IF tech_section = <<>> THEN tech_section
    ELSE sorted([i \in 1..Len(tech_section) |->
                   [k |-> keyword_score(tech_section[i], matched_keywords),
                    v |-> tech_section[i]]], TRUE)

IncludingExpertiseIn ==
    <<",", " ", "i", "n", "c", "l", "u", "d", "i", "n", "g", " ", "e", "x", "p",
      "e", "r", "t", "i", "s", "e", " ", "i", "n", " ">>

ExperiencedWith ==
    <<" ", "E", "x", "p", "e", "r", "i", "e", "n", "c", "e", "d", " ", "w", "i",
      "t", "h", " ">>

\* a buggy enhance_summary: every ranked keyword is considered, not the first 3
enhance_summary_all(summary, top_keywords) ==
    LET keywords_to_add ==
            SelectSeq(top_keywords, LAMBDA kw : ~Contains(lower(summary), kw))
        keyword_phrase == Join(<<",", " ">>, keywords_to_add)
    IN  IF keywords_to_add = <<>> THEN summary
        ELSE IF summary # <<>> /\ summary[Len(summary)] = "."
        THEN SubSeq(summary, 1, Len(summary) - 1) \o IncludingExpertiseIn
                 \o keyword_phrase \o <<".">>
        ELSE summary \o ExperiencedWith \o keyword_phrase \o <<".">>

enhance_summary(summary, top_keywords) ==
    LET summary_lower == lower(summary)
        keywords_to_add ==
            SelectSeq(Take(top_keywords, SummaryTop),
                      LAMBDA kw : ~Contains(summary_lower, kw))
        keyword_phrase == Join(<<",", " ">>, keywords_to_add)
    IN  IF keywords_to_add # <<>>
        THEN IF summary # <<>> /\ summary[Len(summary)] = "."
             THEN SubSeq(summary, 1, Len(summary) - 1) \o IncludingExpertiseIn
                      \o keyword_phrase \o <<".">>
             ELSE summary \o ExperiencedWith \o keyword_phrase \o <<".">>
        ELSE summary

\* sorted(d.items(), key=lambda x: x[1], reverse=True)
by_count_desc(keywords) ==
    sorted([i \in 1..Len(keywords) |-> [k |-> keywords[i].count, v |-> keywords[i]]],
           TRUE)

\* the existing_keywords set of add_relevant_skills
existing_keywords(tech_section) ==
    UNION {{lower(d) : d \in Range(details_of(tech_section[i]))} :
              i \in 1..Len(tech_section)}

JobRelevantLabel == "Job-Relevant Technologies"

\* a buggy add_relevant_skills: the existing details are not consulted
add_relevant_skills_no_filter(tech_section, matched_keywords) ==
    IF matched_keywords = <<>> THEN tech_section
    ELSE LET top == Take(by_count_desc(matched_keywords), RankTop)
         IN  <<[label |-> JobRelevantLabel,
                details |-> [type |-> "list",
                             val |-> Take([i \in 1..Len(top) |-> top[i].kw], NewTop)]]>>
                 \o tech_section

add_relevant_skills(tech_section, matched_keywords) ==
    IF matched_keywords = <<>> THEN tech_section
    ELSE LET top_keywords == Take(by_count_desc(matched_keywords), RankTop)
             existing == existing_keywords(tech_section)
             names == [i \in 1..Len(top_keywords) |-> top_keywords[i].kw]
             new_keywords == SelectSeq(names, LAMBDA kw : kw \notin existing)
         IN  IF new_keywords # <<>>
             THEN <<[label |-> JobRelevantLabel,
                     details |-> [type |-> "list", val |-> Take(new_keywords, NewTop)]]>>
                      \o tech_section
             ELSE tech_section

----------------------------------------------------------------------------
(* The resume document.  yaml.safe_load builds one dict object per mapping; *)
(* the heap holds them by object id, and a dict refers to a nested dict by  *)
(* [ref |-> id].  The keys 'cv' and 'sections' hold the nested dicts.       *)

RefKeys == {"cv", "sections"}

\* the value None (of a type of its own, equal to no dict)
None == [type |-> "NoneType"]

\* the objects yaml.safe_load creates for a document: the top dict, then cv,
\* then cv.sections
load_document(doc) ==
    LET hasCv  == "cv" \in DOMAIN doc
        hasSec == hasCv /\ "sections" \in DOMAIN doc.cv
        top == [k \in DOMAIN doc |-> IF k = "cv" THEN [ref |-> 2] ELSE doc[k]]
        cv  == [k \in DOMAIN doc.cv |->
                  IF k = "sections" THEN [ref |-> 3] ELSE doc.cv[k]]
    IN  IF ~hasCv THEN <<top>>
        ELSE IF ~hasSec THEN <<top, cv>>
        ELSE <<top, cv, doc.cv.sections>>

\* the document an object denotes (what yaml.safe_dump writes, what == compares)
RECURSIVE document_of(_, _)
document_of(h, id) ==
    [k \in DOMAIN h[id] |->
        IF k \in RefKeys THEN document_of(h, h[id][k].ref) ELSE h[id][k]]

\* optimize_resume(resume_data, job_keywords): the heap after the call and the
\* object returned.  The prints are left out.
optimize_resume(h, resume, reg, keywords) ==
    LET optimized == Len(h) + 1
        h1 == Append(h, h[resume])                   \* resume_data.copy()
        safe_keywords == filter_safe_keywords(reg, keywords)
        hasCv == "cv" \in DOMAIN h1[optimized]
        cv == h1[optimized].cv.ref
        hasSummary == hasCv /\ "summary" \in DOMAIN h1[cv]
        expert_keywords ==
            SelectSeq(safe_keywords, LAMBDA p : validate_keyword(reg, p.kw, "proficient"))
        ranked == by_count_desc(expert_keywords)
        top_kw_list == [i \in 1..Len(ranked) |-> ranked[i].kw]
        h2 == IF hasSummary
              THEN [h1 EXCEPT ![cv].summary = enhance_summary(@, top_kw_list)]
              ELSE h1
        hasSections == hasCv /\ "sections" \in DOMAIN h2[cv]
        sections == h2[cv].sections.ref
        hasTech == hasSections /\ "technologies" \in DOMAIN h2[sections]
        relevant_keywords ==
            SelectSeq(safe_keywords, LAMBDA p : validate_keyword(reg, p.kw, "familiar"))
        h3 == IF hasTech
              THEN [h2 EXCEPT ![sections].technologies =
                        add_relevant_skills(reorder_technologies(@, safe_keywords),
                                            relevant_keywords)]
              ELSE h2
    IN  IF keywords = <<>> THEN [heap |-> h1, ret |-> optimized]
        ELSE IF safe_keywords = <<>> THEN [heap |-> h1, ret |-> optimized]
        ELSE [heap |-> h3, ret |-> optimized]

\* validate_keyword calls self.validated_skills.get: with validated_skills None
\* (an empty config file) the first call raises AttributeError, which nothing catches
optimize_resume_raises(reg, keywords) == reg = None /\ keywords # <<>>

----------------------------------------------------------------------------
(* KeywordExtractor *)

\* the entries of self.tech_keywords that the job postings of the model can
\* mention: single words, one that holds a character the cleaning removes, and
\* one multi-word term
tech_keywords == {go, ai, git, csharp, restapi}

WordChars == Range(LowerCase) \cup Range(UpperCase) \cup Digits \cup {"_"}

\* \w
is_word(c) == c \in WordChars

\* \s
is_space(c) == c \in {" ", "\n", "\t"}

\* job_text.lower(), then re.sub(r'[^\w\s.-]', ' ', job_text)
RECURSIVE clean_text(_)
clean_text(text) ==
    IF text = <<>> THEN <<>>
    ELSE LET c == lower_char(Head(text))
         IN  <<IF is_word(c) \/ is_space(c) \/ c \in {".", "-"} THEN c ELSE " ">>
                 \o clean_text(Tail(text))

\* \b at offset i (between t[i] and t[i+1]; outside the text counts as non-word)
word_boundary(t, i) ==
    LET before == i >= 1 /\ is_word(t[i])
        after  == i < Len(t) /\ is_word(t[i + 1])
    IN  before # after

\* the ends e of a match of \b[\w.-]+\b that starts at offset s
word_ends(t, s) ==
    {e \in (s + 1)..Len(t) :
        /\ \A j \in (s + 1)..e : is_word(t[j]) \/ t[j] \in {".", "-"}
        /\ word_boundary(t, e)}

\* re.findall(r'\b[\w.-]+\b', t), scanning from offset p: the leftmost match,
\* the longest at that start, then on from its end
RECURSIVE find_words(_, _)
find_words(t, p) ==
    LET starts == {s \in p..(Len(t) - 1) : word_boundary(t, s) /\ word_ends(t, s) # {}}
    IN  IF starts = {} THEN <<>>
        ELSE LET s == CHOOSE x \in starts : \A y \in starts : x <= y
                 e == CHOOSE x \in word_ends(t, s) : \A y \in word_ends(t, s) : y <= x
             IN  <<SubSeq(t, s + 1, e)>> \o find_words(t, e)

\* len(re.findall(rf'\b{re.escape(keyword)}\b', t)), scanning from offset p
RECURSIVE count_phrase(_, _, _)
count_phrase(t, keyword, p) ==
    LET n == Len(keyword)
        starts == {s \in p..(Len(t) - n) :
                     /\ word_boundary(t, s)
                     /\ SubSeq(t, s + 1, s + n) = keyword
                     /\ word_boundary(t, s + n)}
    IN  IF starts = {} THEN 0
        ELSE 1 + count_phrase(t, keyword, (CHOOSE x \in starts : \A y \in starts : x <= y) + n)

\* words.count(keyword)
count_word(words, keyword) == Cardinality({i \in 1..Len(words) : words[i] = keyword})

\* the count of one vocabulary entry
keyword_count(t, words, keyword) ==
    IF InList(" ", keyword) THEN count_phrase(t, keyword, 0)
    ELSE count_word(words, keyword)

\* extract_keywords(job_text).  `order` is the order in which the loop visits
\* the set self.tech_keywords: a set of str iterates in an order that depends
\* on the process's hash seed.
extract_keywords(text, order) ==
    LET t == clean_text(text)
        words == find_words(t, 0)
        found == SelectSeq(order, LAMBDA keyword : keyword_count(t, words, keyword) > 0)
    IN  [i \in 1..Len(found) |->
            [kw |-> found[i], count |-> keyword_count(t, words, found[i])]]

\* the sequences without repetition of at most n elements of S
RECURSIVE DistinctSeqs(_, _)
DistinctSeqs(S, n) ==
    IF n = 0 THEN {<<>>}
    ELSE LET shorter == DistinctSeqs(S, n - 1)
         IN  shorter \cup
             {Append(qx[1], qx[2]) :
                 qx \in {y \in shorter \X S : ~InList(y[2], y[1])}}

\* the orders in which a set can be iterated
IterationOrders(S) == {q \in DistinctSeqs(S, Cardinality(S)) : Len(q) = Cardinality(S)}

----------------------------------------------------------------------------
(* The inputs of the model *)

MaxCount    == 2    \* a keyword is counted at most this often
MaxKeywords == 2    \* a keyword-count map given to a method has at most this many keys
MaxSections == 2    \* a technologies list given to a method has at most this many items

GoDev        == <<"G", "o", " ", "d", "e", "v", ".">>
MaintainsGit == <<"M", "a", "i", "n", "t", "a", "i", "n", "s", " ", "g", "i", "t">>
AiGitGo      == <<"A", "I", ",", " ", "g", "i", "t", ",", " ", "G", "o", ".">>
GitAndAI     == <<"g", "i", "t", " ", "a", "n", "d", " ", "A", "I">>
Django       == <<"D", "j", "a", "n", "g", "o">>

Summaries == {<<>>, GoDev, MaintainsGit, AiGitGo}

itemA == [label |-> "Languages", details |-> [type |-> "list", val |-> <<Go>>]]
itemB == [label |-> "Tools", details |-> [type |-> "str", val |-> GitAndAI]]
itemC == [label |-> "Other"]
itemD == [label |-> "Web", details |-> [type |-> "list", val |-> <<ai, Django>>]]

ItemPool == {itemA, itemB, itemC, itemD}

\* the sequences of at most n elements of S
RECURSIVE SeqsUpTo(_, _)
SeqsUpTo(S, n) ==
    IF n = 0 THEN {<<>>}
    ELSE LET shorter == SeqsUpTo(S, n - 1)
         IN  shorter \cup {Append(q, x) : q \in shorter, x \in S}

SectionLists == SeqsUpTo(ItemPool, MaxSections)

\* the keyword-count maps over a set of keywords: the keys in every insertion
\* order, every count from 1 to MaxCount
KeywordMaps(S) ==
    UNION {{[i \in 1..Len(q) |-> [kw |-> q[i], count |-> c[i]]] :
               c \in [1..Len(q) -> 1..MaxCount]} :
           q \in DistinctSeqs(S, MaxKeywords)}

\* the keywords a posting can yield (entries of the vocabulary, lowercase)
KeywordPool == {go, ai, git}

\* the ranked lists given to enhance_summary: one more than it considers
RankedLists == DistinctSeqs({go, ai, git, restapi}, SummaryTop + 1)

\* the keywords given to validate_keyword, in the case the caller wrote them
CallKeywords == {go, GO, ai, AI, git}

doc1 == [design |-> "classic",
         cv |-> [name |-> "J", summary |-> GoDev,
                 sections |-> [education |-> "BSc",
                               technologies |-> <<itemC, itemB, itemA>>]]]
doc2 == [design |-> "classic"]
doc3 == [design |-> "classic", cv |-> [name |-> "J"]]
doc4 == [cv |-> [name |-> "J", summary |-> MaintainsGit,
                 sections |-> [education |-> "BSc"]]]
doc5 == [cv |-> [summary |-> <<>>, sections |-> [technologies |-> <<>>]]]
doc6 == [cv |-> [name |-> "J", sections |-> [technologies |-> <<itemD, itemA>>]]]

ResumeDocs == {doc1, doc2, doc3, doc4, doc5, doc6}

\* where the config lists one skill: the keys that hold it
Placements ==
    {{}, {"learning"}, {"familiar"}, {"proficient"}, {"expert"}, {"never_add"},
     {"expert", "never_add"}, {"learning", "proficient"}}

\* a skills config that lists "Go" under the keys pGo and "ai" under the keys
\* pAi; with `sparse` the keys that list nothing are absent from the file
registry_of(pGo, pAi, sparse) ==
    LET full == [k \in ConfigKeys |->
                    (IF k \in pGo THEN <<Go>> ELSE <<>>) \o
                    (IF k \in pAi THEN <<ai>> ELSE <<>>)]
    IN  IF sparse
        THEN [k \in {x \in ConfigKeys : full[x] # <<>>} |-> full[k]]
        ELSE full

Registries ==
    {registry_of(pGo, pAi, sparse) :
        pGo \in Placements, pAi \in Placements, sparse \in BOOLEAN}

NoFile == [type |-> "NoFile"]
NoCall == [method |-> "none"]

Absent     == [state |-> "absent"]
Unreadable == [state |-> "unreadable"]
Malformed  == [state |-> "malformed"]
Parsed(doc) == [state |-> "ok", doc |-> doc]

NoFiles == [skills |-> Absent, resume |-> Absent, job |-> Absent, writable |-> FALSE]

\* job postings: "", "Go, AI", "C# REST API/Go", "PHP", "ai AI git.", "git-go Go"
JobTexts ==
    {<<>>,
     <<"G", "o", ",", " ", "A", "I">>,
     <<"C", "#", " ", "R", "E", "S", "T", " ", "A", "P", "I", "/", "G", "o">>,
     <<"P", "H", "P">>,
     <<"a", "i", " ", "A", "I", " ", "g", "i", "t", ".">>,
     <<"g", "i", "t", "-", "g", "o", " ", "G", "o">>}

SkillsFiles ==
    {Absent, Unreadable, Malformed, Parsed(None),
     Parsed(registry_of({"expert"}, {"familiar"}, FALSE)),
     Parsed(registry_of({"expert", "never_add"}, {"proficient"}, TRUE)),
     Parsed(registry_of({"proficient"}, {"learning"}, TRUE)),
     Parsed(registry_of({}, {}, TRUE))}

ResumeFiles == {Absent, Malformed, Parsed(None), Parsed(doc1), Parsed(doc4), Parsed(doc2)}

JobFiles == {Absent, Unreadable} \cup {Parsed(t) : t \in JobTexts}

----------------------------------------------------------------------------
(* Method calls on a ResumeOptimizer: one call, then its result *)

Init ==
    /\ pc = "ready"
    /\ validated_skills \in Registries
    /\ heap = <<>>
    /\ pre = <<>>
    /\ call = NoCall
    /\ files = NoFiles
    /\ resume_data = 0
    /\ job_text = <<>>
    /\ job_keywords = <<>>
    /\ optimized_resume = 0
    /\ output = NoFile
    /\ log = <<>>

main_vars == <<files, resume_data, job_text, job_keywords, optimized_resume, output, log>>

CallValidateKeyword ==
    /\ pc = "ready"
    /\ \E keyword \in CallKeywords, skill_level \in Range(skill_hierarchy) :
          call' = [method |-> "validate_keyword", keyword |-> keyword,
                   skill_level |-> skill_level,
                   ret |-> validate_keyword(validated_skills, keyword, skill_level)]
    /\ pc' = "returned"
    /\ UNCHANGED <<validated_skills, heap, pre, main_vars>>

CallOptimizeResume ==
    /\ pc = "ready"
    /\ \E doc \in ResumeDocs, keywords \in KeywordMaps(KeywordPool) :
          LET h == load_document(doc)
              r == optimize_resume(h, 1, validated_skills, keywords)
          IN  /\ pre' = h
              /\ heap' = r.heap
              /\ call' = [method |-> "optimize_resume", resume_data |-> 1,
                          job_keywords |-> keywords, ret |-> r.ret]
    /\ pc' = "returned"
    /\ UNCHANGED <<validated_skills, main_vars>>

Next == CallValidateKeyword \/ CallOptimizeResume

Spec == Init /\ [][Next]_vars

----------------------------------------------------------------------------
(* Calls of the methods that do not read the skills *)

InitHelpers ==
    /\ pc = "ready"
    /\ validated_skills = default_config
    /\ heap = <<>>
    /\ pre = <<>>
    /\ call = NoCall
    /\ files = NoFiles
    /\ resume_data = 0
    /\ job_text = <<>>
    /\ job_keywords = <<>>
    /\ optimized_resume = 0
    /\ output = NoFile
    /\ log = <<>>

CallReorderTechnologies ==
    /\ pc = "ready"
    /\ \E tech_section \in SectionLists, keywords \in KeywordMaps(KeywordPool) :
          call' = [method |-> "reorder_technologies", tech_section |-> tech_section,
                   matched_keywords |-> keywords,
                   ret |-> reorder_technologies(tech_section, keywords)]
    /\ pc' = "returned"
    /\ UNCHANGED <<validated_skills, heap, pre, main_vars>>

CallEnhanceSummary ==
    /\ pc = "ready"
    /\ \E summary \in Summaries, top_keywords \in RankedLists :
          call' = [method |-> "enhance_summary", summary |-> summary,
                   top_keywords |-> top_keywords,
                   ret |-> enhance_summary(summary, top_keywords)]
    /\ pc' = "returned"
    /\ UNCHANGED <<validated_skills, heap, pre, main_vars>>

CallAddRelevantSkills ==
    /\ pc = "ready"
    /\ \E tech_section \in SectionLists, keywords \in KeywordMaps(KeywordPool) :
          call' = [method |-> "add_relevant_skills", tech_section |-> tech_section,
                   matched_keywords |-> keywords,
                   ret |-> add_relevant_skills(tech_section, keywords)]
    /\ pc' = "returned"
    /\ UNCHANGED <<validated_skills, heap, pre, main_vars>>

NextHelpers == CallReorderTechnologies \/ CallEnhanceSummary \/ CallAddRelevantSkills

SpecHelpers == InitHelpers /\ [][NextHelpers]_vars

----------------------------------------------------------------------------
(* main(): one run of the command-line tool *)

\* load_validated_skills: what yaml.safe_load returns for a file that parses,
\* the default config when the file is absent or loading raises
load_validated_skills(file) ==
    IF file.state = "ok" THEN file.doc ELSE default_config

\* load_resume returns a document that is truthy (a non-empty mapping)
resume_loaded(file) == file.state = "ok" /\ file.doc # None

\* load_job_posting: the text, "" when loading raises
load_job_posting(file) == IF file.state = "ok" THEN file.doc ELSE <<>>

InitMain ==
    /\ pc = "construct"
    /\ files \in [skills : SkillsFiles, resume : ResumeFiles, job : JobFiles,
                   writable : BOOLEAN]
    /\ validated_skills = None
    /\ heap = <<>>
    /\ pre = <<>>
    /\ call = NoCall
    /\ resume_data = 0
    /\ job_text = <<>>
    /\ job_keywords = <<>>
    /\ optimized_resume = 0
    /\ output = NoFile
    /\ log = <<>>

\* optimizer = ResumeOptimizer(args.skills_config)
Construct ==
    /\ pc = "construct"
    /\ validated_skills' = load_validated_skills(files.skills)
    /\ pc' = "load_resume"
    /\ log' = Append(log, "construct")
    /\ UNCHANGED <<heap, pre, call, files, resume_data, job_text, job_keywords,
                   optimized_resume, output>>

\* resume_data = optimizer.load_resume(...); if not resume_data: return
LoadResume ==
    /\ pc = "load_resume"
    /\ IF resume_loaded(files.resume)
       THEN /\ heap' = load_document(files.resume.doc)
            /\ resume_data' = 1
            /\ pc' = "load_job"
            /\ log' = Append(log, "resume loaded")
       ELSE /\ pc' = "exit"
            /\ log' = Append(log, "resume not loaded")
            /\ UNCHANGED <<heap, resume_data>>
    /\ UNCHANGED <<validated_skills, pre, call, files, job_text, job_keywords,
                   optimized_resume, output>>

\* a buggy main(): the job text is not tested, the run goes on with ""
LoadJobPosting_unchecked ==
    /\ pc = "load_job"
    /\ job_text' = load_job_posting(files.job)
    /\ pc' = "extract"
    /\ log' = Append(log, IF job_text' # <<>> THEN "job loaded" ELSE "job not loaded")
    /\ UNCHANGED <<validated_skills, heap, pre, call, files, resume_data, job_keywords,
                   optimized_resume, output>>

\* job_text = optimizer.load_job_posting(...); if not job_text: return
LoadJobPosting ==
    /\ pc = "load_job"
    /\ job_text' = load_job_posting(files.job)
    /\ IF job_text' # <<>>
       THEN pc' = "extract" /\ log' = Append(log, "job loaded")
       ELSE pc' = "exit" /\ log' = Append(log, "job not loaded")
    /\ UNCHANGED <<validated_skills, heap, pre, call, files, resume_data, job_keywords,
                   optimized_resume, output>>

\* job_keywords = optimizer.extract_keywords(job_text)
ExtractKeywords ==
    /\ pc = "extract"
    /\ \E order \in IterationOrders(tech_keywords) :
          job_keywords' = extract_keywords(job_text, order)
    /\ pc' = "optimize"
    /\ log' = Append(log, "extract")
    /\ UNCHANGED <<validated_skills, heap, pre, call, files, resume_data, job_text,
                   optimized_resume, output>>

\* optimized_resume = optimizer.optimize_resume(resume_data, job_keywords)
OptimizeResume ==
    /\ pc = "optimize"
    /\ IF optimize_resume_raises(validated_skills, job_keywords)
       THEN /\ pc' = "crashed"
            /\ log' = Append(log, "AttributeError")
            /\ UNCHANGED <<heap, pre, optimized_resume>>
       ELSE LET r == optimize_resume(heap, resume_data, validated_skills, job_keywords)
            IN  /\ pre' = heap
                /\ heap' = r.heap
                /\ optimized_resume' = r.ret
                /\ pc' = "save"
                /\ log' = Append(log, "optimize")
    /\ UNCHANGED <<validated_skills, call, files, resume_data, job_text, job_keywords,
                   output>>

\* optimizer.save_resume(optimized_resume, output_path)
SaveResume ==
    /\ pc = "save"
    /\ output' = IF files.writable THEN document_of(heap, optimized_resume) ELSE output
    /\ pc' = "done"
    /\ log' = Append(log, "save")
    /\ UNCHANGED <<validated_skills, heap, pre, call, files, resume_data, job_text,
                   job_keywords, optimized_resume>>

NextMain ==
    \/ Construct
    \/ LoadResume
    \/ LoadJobPosting
    \/ ExtractKeywords
    \/ OptimizeResume
    \/ SaveResume

SpecMain == InitMain /\ [][NextMain]_vars

----------------------------------------------------------------------------
(* The claims *)

\* a = b ignoring case
SameIgnoringCase(a, b) ==
    Len(a) = Len(b) /\ \A i \in 1..Len(a) : lower_char(a[i]) = lower_char(b[i])

\* the keyword is in never_add, compared case-insensitively
Excluded(reg, keyword) ==
    "never_add" \in DOMAIN reg /\
    \E s \in Range(reg["never_add"]) : SameIgnoringCase(s, keyword)

\* the keyword is registered at the level or at a higher one
RegisteredAtOrAbove(reg, keyword, level) ==
    \E l \in Range(skill_hierarchy) \cap DOMAIN reg :
        /\ hierarchy_index(l) >= hierarchy_index(level)
        /\ \E s \in Range(reg[l]) : SameIgnoringCase(s, keyword)

\* a safe keyword at a level
SafeAt(reg, keyword, level) ==
    ~Excluded(reg, keyword) /\ RegisteredAtOrAbove(reg, keyword, level)

Keys(keywords) == {keywords[i].kw : i \in 1..Len(keywords)}

summary_of(d) ==
    IF "cv" \in DOMAIN d /\ "summary" \in DOMAIN d.cv THEN <<d.cv.summary>> ELSE <<>>

technologies_of(d) ==
    IF "cv" \in DOMAIN d /\ "sections" \in DOMAIN d.cv
       /\ "technologies" \in DOMAIN d.cv.sections
    THEN <<d.cv.sections.technologies>> ELSE <<>>

\* the document with cv.summary and cv.sections.technologies taken out
other_fields(d) ==
    IF "cv" \notin DOMAIN d THEN d
    ELSE [d EXCEPT !.cv =
            LET c == d.cv
                c1 == [k \in DOMAIN c \ {"summary"} |-> c[k]]
            IN  IF "sections" \notin DOMAIN c1 THEN c1
                ELSE [c1 EXCEPT !.sections =
                        [k \in DOMAIN c1.sections \ {"technologies"} |-> c1.sections[k]]]]

Optimized == call.method = "optimize_resume"
InputBefore == document_of(pre, call.resume_data)
InputAfter  == document_of(heap, call.resume_data)
Returned    == document_of(heap, call.ret)

\* C1: validate_keyword(k, L) is true exactly when k is not in never_add
\* (ignoring case) and k is registered at L or at a higher level; so a keyword
\* in never_add is rejected at every level, also when listed under expert, and a
\* keyword validated at a level is validated at every lower level.
C1_ValidateKeyword ==
    call.method = "validate_keyword" =>
        LET reg == validated_skills
            k == call.keyword
            L == call.skill_level
        IN  /\ call.ret = SafeAt(reg, k, L)
            /\ Excluded(reg, k) =>
                   \A L2 \in Range(skill_hierarchy) : ~validate_keyword(reg, k, L2)
            /\ call.ret =>
                   \A L2 \in Range(skill_hierarchy) :
                       hierarchy_index(L2) <= hierarchy_index(L)
                           => validate_keyword(reg, k, L2)

\* C1 witness: "GO" is asked at 'learning' while the config lists "Go" under
\* expert and under never_add, and is rejected
C1_Witness ==
    /\ call.method = "validate_keyword"
    /\ call.keyword = GO
    /\ call.skill_level = "learning"
    /\ listed(validated_skills, "expert", go)
    /\ listed(validated_skills, "never_add", go)
    /\ call.ret = FALSE

\* the summary enhance_summary builds when it adds the keywords `added`
WithKeywords(summary, added) ==
    IF summary # <<>> /\ summary[Len(summary)] = "."
    THEN SubSeq(summary, 1, Len(summary) - 1) \o IncludingExpertiseIn
             \o Join(<<",", " ">>, added) \o <<".">>
    ELSE summary \o ExperiencedWith \o Join(<<",", " ">>, added) \o <<".">>

SectionInjected ==
    /\ technologies_of(Returned) # <<>>
    /\ Len(technologies_of(Returned)[1]) = Len(technologies_of(InputBefore)[1]) + 1

SummaryChanged == summary_of(Returned) # summary_of(InputBefore)

\* C2: every keyword optimize_resume inserts is safe: each detail of an injected
\* 'Job-Relevant Technologies' section is a key of jobKeywords that is not in
\* never_add and is registered at familiar or higher, and the keywords appended
\* to cv.summary are keys of jobKeywords that are not in never_add and are
\* registered at proficient or higher.
C2_InsertedKeywordsSafe ==
    Optimized =>
        LET reg == validated_skills
            keys == Keys(call.job_keywords)
        IN  /\ SectionInjected =>
                  LET section == technologies_of(Returned)[1][1]
                  IN  /\ section.label = JobRelevantLabel
                      /\ \A d \in Range(section.details.val) :
                            d \in keys /\ SafeAt(reg, d, "familiar")
            /\ SummaryChanged =>
                  \E added \in DistinctSeqs({k \in keys : SafeAt(reg, k, "proficient")},
                                             SummaryTop) \ {<<>>} :
                      summary_of(Returned)[1] = WithKeywords(summary_of(InputBefore)[1], added)

\* C2 witness: a section was injected and the summary extended although a key of
\* jobKeywords is not safe
C2_Witness ==
    /\ Optimized
    /\ SectionInjected
    /\ SummaryChanged
    /\ \E k \in Keys(call.job_keywords) : ~SafeAt(validated_skills, k, "familiar")

\* the score of the claim: 10 x count for every detail string and every keyword
\* that is a substring of the lowercased detail
ClaimScore(item, keywords) ==
    LET details == details_of(item)
        hits == {<<i, j>> \in (1..Len(details)) \X (1..Len(keywords)) :
                    Contains(lower(details[i]), keywords[j].kw)}
        counts(j) == Cardinality({h \in hits : h[2] = j}) * keywords[j].count
    IN  10 * SumSeq([j \in 1..Len(keywords) |-> counts(j)])

\* C3: reorder_technologies returns exactly the input items, each once, in
\* non-increasing order of score, items of equal score in their original order;
\* an empty list is returned unchanged.
C3_ReorderIsStablePermutation ==
    call.method = "reorder_technologies" =>
        LET in == call.tech_section
            out == call.ret
            score(item) == ClaimScore(item, call.matched_keywords)
        IN  /\ Len(out) = Len(in)
            /\ \E p \in IterationOrders(1..Len(in)) :
                  /\ \A i \in 1..Len(in) : out[i] = in[p[i]]
                  /\ \A i, j \in 1..Len(in) :
                        i < j =>
                          /\ score(out[i]) >= score(out[j])
                          /\ score(out[i]) = score(out[j]) => p[i] < p[j]

\* C3 witness: two items were exchanged because the second scores higher
C3_Witness ==
    /\ call.method = "reorder_technologies"
    /\ Len(call.tech_section) = 2
    /\ call.ret = <<call.tech_section[2], call.tech_section[1]>>
    /\ call.ret # call.tech_section
    /\ ClaimScore(call.ret[1], call.matched_keywords)
           > ClaimScore(call.ret[2], call.matched_keywords)

AllDetails(tech_section) ==
    UNION {Range(details_of(tech_section[i])) : i \in 1..Len(tech_section)}

C5_InputNotMutated ==
    Optimized =>
        /\ InputAfter = InputBefore
        /\ other_fields(Returned) = other_fields(InputBefore)

\* C6 (as claimed): the result depends only on the (keyword, count) pairs: with
\* the same pairs inserted in any other order, optimize_resume returns the same
\* cv.summary and the same cv.sections.technologies.
C6_InsertionOrderIrrelevant ==
    Optimized =>
        \A q \in IterationOrders(Range(call.job_keywords)) :
            LET r == optimize_resume(pre, call.resume_data, validated_skills, q)
                d == document_of(r.heap, r.ret)
            IN  /\ summary_of(d) = summary_of(Returned)
                /\ technologies_of(d) = technologies_of(Returned)

\* C7: optimize_resume returns the resume unchanged when jobKeywords is empty
\* and when no key of jobKeywords is validated at familiar or higher.
C7_NoSafeKeywordsNoChange ==
    (Optimized /\ \A k \in Keys(call.job_keywords) : ~SafeAt(validated_skills, k, "familiar"))
        => /\ Returned = InputBefore
           /\ InputAfter = InputBefore

\* C7 witness: keywords were given, none of them safe, for a resume that has a
\* summary and a technologies list which they match
C7_Witness ==
    /\ Optimized
    /\ call.job_keywords # <<>>
    /\ \A k \in Keys(call.job_keywords) : ~SafeAt(validated_skills, k, "familiar")
    /\ summary_of(InputBefore) # <<>>
    /\ technologies_of(InputBefore) # <<>>
    /\ reorder_technologies(technologies_of(InputBefore)[1], call.job_keywords)
           # technologies_of(InputBefore)[1]
    /\ Returned = InputBefore

\* C8: enhance_summary returns the summary byte-identical when the summary
\* already contains each of the first 3 ranked keywords, or the list is empty;
\* the keywords ranked 4th or later never cause a change.
C8_SummaryUnchanged ==
    call.method = "enhance_summary" =>
        ((\A i \in 1..Len(call.top_keywords) :
              i <= 3 => Contains(lower(call.summary), call.top_keywords[i]))
            => call.ret = call.summary)

\* C8 witness: the first 3 keywords are in the summary, the 4th is not, and the
\* summary came back as it was
C8_Witness ==
    /\ call.method = "enhance_summary"
    /\ Len(call.top_keywords) = 4
    /\ \A i \in 1..3 : Contains(lower(call.summary), call.top_keywords[i])
    /\ ~Contains(lower(call.summary), call.top_keywords[4])
    /\ call.ret = call.summary

LoadFailed == files.resume.state # "ok" \/ files.job.state # "ok"

\* C9: in a run of main in which loading the resume or the job posting fails,
\* save_resume is never reached and no output is written; and a save is attempted
\* only after both loads succeeded and extract and optimize completed, in that order.
C9_NoOutputAfterFailedLoad ==
    /\ LoadFailed => /\ output = NoFile
                     /\ ~InList("save", log)
                     /\ pc \notin {"save", "done"}
    /\ pc \in {"save", "done"} =>
          SubSeq(log, 1, 5) = <<"construct", "resume loaded", "job loaded",
                                "extract", "optimize">>
    /\ output # NoFile => log = <<"construct", "resume loaded", "job loaded",
                                  "extract", "optimize", "save">>

\* C9 witness: the resume loaded, the job posting file is missing, the output
\* path is writable, and the run has ended without an output
C9_Witness ==
    /\ pc = "exit"
    /\ files.resume.state = "ok"
    /\ files.job.state = "absent"
    /\ files.writable
    /\ log = <<"construct", "resume loaded", "job not loaded">>
    /\ output = NoFile

\* the skills file gives a config that lists at least one skill
UsableConfig ==
    /\ files.skills.state = "ok"
    /\ files.skills.doc # None
    /\ \E k \in DOMAIN files.skills.doc : files.skills.doc[k] # <<>>

\* C10 (as claimed): whatever loading the skills configuration gives (file
\* absent, unreadable, malformed, parsed but empty or with keys missing), the run
\* continues without an unhandled fault; and with no usable configuration no
\* keyword validates, so optimize_resume returns the resume unchanged.
C10_ConfigLoadNeverFaults ==
    /\ pc # "crashed"
    /\ (pc \in {"save", "done"} /\ ~UsableConfig) =>
          document_of(heap, optimized_resume) = document_of(pre, resume_data)

====
